---- MODULE Spec2Model ----
(***************************************************************************)
(* A model of the two queue engines of the `queue` crate:                  *)
(*   BoundQueue   (src/src/bound.rs)   ring buffer over raw storage        *)
(*   UnboundQueue (src/src/unbound.rs) singly linked chain of heap nodes   *)
(* A run constructs one queue (either engine), then applies push, pop, the *)
(* queries, the borrowing iterators, into_iter and finally drop.           *)
(***************************************************************************)
EXTENDS Integers, Sequences, FiniteSets, TLC

\* ------------------------------------------------------------------ bounds
\* largest requested size passed to BoundQueue::new
MaxSize == 3
\* element values are 1..MaxVal
MaxVal == 2
\* number of push/pop calls recorded in one run
MaxOps == 5
\* number of heap addresses available to Box::new
MaxNodes == 2
\* long runs of push and pop on a small ring: largest size, number of calls
MaxWrapSize == 1
MaxWrapOps == 8

Vals == 1..MaxVal
Sizes == 0..MaxSize
Addrs == 1..MaxNodes

\* ------------------------------------------------------- values and slots
\* Option<T>
None == [ok |-> FALSE, v |-> 0]
Some(x) == [ok |-> TRUE, v |-> x]

\* one slot of the RawVec block: raw memory, or memory holding a T
Uninit == [init |-> FALSE, v |-> 0]
Slot(x) == [init |-> TRUE, v |-> x]

\* Option<NonNull<Node<T>>>::None
Null == 0
\* a heap cell not (or no longer) owned by a Box
FreeNode == [live |-> FALSE, next |-> Null, data |-> 0]
\* Node::new(data)
Node_new(x) == [live |-> TRUE, next |-> Null, data |-> x]

VARIABLES
    engine,    \* "bound" or "unbound": the constructor the run called
    size,      \* the argument of BoundQueue::new
    bq,        \* BoundQueue  [head, tail, cap, data]
    uq,        \* UnboundQueue [head, tail, len]
    heap,      \* the Box<Node<T>> allocations, by address
    mode,      \* "live", "iter", "iter_mut", "into", "dropped"
    it,        \* the iterator in use [pos, tail]
    yielded,   \* the elements the iterator in use has returned
    itDone,    \* the iterator in use has returned None
    snapshot,  \* what iter() yields on the queue handed to into_iter
    ret,       \* the last call and what it returned
    hist,      \* the push and pop calls so far, with their results
    dropped,   \* slots (addresses) destructed by Drop, in order
    uret       \* side by side: what the UnboundQueue returned to the call

vars == <<engine, size, bq, uq, heap, mode, it, yielded, itDone, snapshot,
          ret, hist, dropped, uret>>

\* ============================================================ BoundQueue
\* RawVec::new() then reserve(0, size + 1): a block of size + 1 slots of a
\* sized T, none initialized
BoundQueue_new(sz) ==
    [head |-> 0, tail |-> 0, cap |-> sz + 1, data |-> [i \in 0..sz |-> Uninit]]

\* cap(): the raw allocation size
\* (faulty variant: the requested size is reported)
cap_requested(q) == q.cap - 1
BoundQueue_cap(q) == q.cap

\* (faulty variant: >= for ==, reports full whenever tail is not behind head)
is_full_ge(q) == q.tail + 1 >= q.head
BoundQueue_is_full(q) == q.tail + 1 = q.head

BoundQueue_is_empty(q) == q.head = q.tail

BoundQueue_read(q, off) == q.data[off].v

BoundQueue_write(q, off, item) == [q EXCEPT !.data[off] = Slot(item)]

\* push, lines 35-38: the candidate next tail
push_next(q) ==
    IF q.tail + 1 >= BoundQueue_cap(q) THEN 0 ELSE q.tail + 1

\* push, line 39: the full test
\* (faulty variant: the test of is_full(), without the wrapped next)
push_full_raw(q, next) == BoundQueue_is_full(q)
push_full_never(q, next) == FALSE
push_full(q, next) == next = q.head

\* push, lines 42-44: the slot written
\* (faulty variant: the item goes to the slot after tail)
push_off_next(q, next) == next
push_off(q, next) == q.tail

BoundQueue_push(q, item) ==
    LET next == push_next(q) IN
    IF push_full(q, next)
    THEN q
    ELSE [BoundQueue_write(q, push_off(q, next), item) EXCEPT !.tail = next]

\* pop, line 50: the empty test
\* (faulty variants: no test at all; a test that forgets tail may wrap)
pop_empty_never(q) == FALSE
pop_empty_linear(q) == q.head >= q.tail
pop_empty(q) == q.head = q.tail

\* pop, lines 53-56: the next head
\* (faulty variant: > for >=, head runs one past the block)
pop_next_nowrap(q) ==
    IF q.head + 1 > BoundQueue_cap(q) THEN 0 ELSE q.head + 1
pop_next(q) ==
    IF q.head + 1 >= BoundQueue_cap(q) THEN 0 ELSE q.head + 1

\* pop: the queue afterwards and the value returned
BoundQueue_pop(q) ==
    IF pop_empty(q)
    THEN [q |-> q, r |-> None]
    ELSE [q |-> [q EXCEPT !.data[q.head] = Uninit, !.head = pop_next(q)],
          r |-> Some(BoundQueue_read(q, q.head))]

\* iter(): pos, tail; data is the whole block, data.len() == cap
\* (faulty variants: the walk starts at slot 0 instead of head)
Iter_new_zero(q) == [pos |-> 0, tail |-> q.tail]
BoundQueue_iter(q) == [pos |-> q.head, tail |-> q.tail]

IterMut_new_zero(q) == [pos |-> 0, tail |-> q.tail]
BoundQueue_iter_mut(q) == [pos |-> q.head, tail |-> q.tail]

\* Iter::next: the iterator afterwards and the slot index returned (c),
\* some = FALSE for None
Iter_next(i, len) ==
    IF i.pos = i.tail
    THEN [i |-> i, some |-> FALSE, c |-> i.pos]
    ELSE [i |-> [i EXCEPT !.pos = IF i.pos = len - 1 THEN 0 ELSE i.pos + 1],
          some |-> TRUE, c |-> i.pos]

IterMut_next(i, len) ==
    IF i.pos = i.tail
    THEN [i |-> i, some |-> FALSE, c |-> i.pos]
    ELSE [i |-> [i EXCEPT !.pos = IF i.pos = len - 1 THEN 0 ELSE i.pos + 1],
          some |-> TRUE, c |-> i.pos]

\* the slot indices a loop over iter() visits
RECURSIVE Iter_all(_, _)
Iter_all(i, len) ==
    LET n == Iter_next(i, len) IN
    IF n.some THEN <<n.c>> \o Iter_all(n.i, len) ELSE <<>>

\* the slot indices a loop over iter_mut() visits
RECURSIVE IterMut_all(_, _)
IterMut_all(i, len) ==
    LET n == IterMut_next(i, len) IN
    IF n.some THEN <<n.c>> \o IterMut_all(n.i, len) ELSE <<>>

\* Drop for BoundQueue: drop_in_place on every slot iter_mut() yields
BoundQueue_drop_slots(q) == IterMut_all(BoundQueue_iter_mut(q), q.cap)

Range(s) == {s[k] : k \in DOMAIN s}

BoundQueue_drop(q) ==
    LET ds == Range(BoundQueue_drop_slots(q)) IN
    [q EXCEPT !.data = [k \in DOMAIN q.data |->
                           IF k \in ds THEN Uninit ELSE q.data[k]]]

\* ========================================================== UnboundQueue
UnboundQueue_new == [head |-> Null, tail |-> Null, len |-> 0]

UnboundQueue_is_empty(q) == q.head = Null

\* push_node, lines 60-63: where the new node is linked in
\* (faulty variant: the old tail's next link is never set)
push_link_never(q, h, node) == h
push_link(q, h, node) ==
    IF q.tail = Null THEN h ELSE [h EXCEPT ![q.tail].next = node]

\* push(item) with Box::new returning address a
UnboundQueue_push(q, h, a, item) ==
    LET h1 == [h EXCEPT ![a] = Node_new(item)] IN
    [q |-> [head |-> IF q.tail = Null THEN a ELSE q.head,
            tail |-> a,
            len  |-> q.len + 1],
     heap |-> push_link(q, h1, a)]

\* pop_node, lines 73-75: the tail after the head moved to newHead
\* (faulty variant: tail is not cleared with the last node)
pop_tail_kept(q, newHead) == q.tail
pop_tail(q, newHead) == IF newHead = Null THEN Null ELSE q.tail

\* pop_node, line 76: the cached count
\* (faulty variant: the decrement is missing)
pop_len_kept(q) == q.len
pop_len(q) == q.len - 1

\* pop_node followed by pop's map(|node| node.data): the Box is released
UnboundQueue_pop(q, h) ==
    IF q.head = Null
    THEN [q |-> q, heap |-> h, r |-> None, node |-> Null]
    ELSE LET node == q.head
             nh == h[node].next IN
         [q |-> [head |-> nh, tail |-> pop_tail(q, nh), len |-> pop_len(q)],
          heap |-> [h EXCEPT ![node] = FreeNode],
          r |-> Some(h[node].data),
          node |-> node]

\* iter() / iter_mut(): pos refers to the head node
\* (faulty variant: the walk starts at the tail node)
UIter_new_tail(q) == [pos |-> q.tail, tail |-> Null]
UnboundQueue_iter(q) == [pos |-> q.head, tail |-> Null]
UnboundQueue_iter_mut(q) == [pos |-> q.head, tail |-> Null]

\* Iter::next / IterMut::next: c is the address of the node yielded
UIter_next(i, h) ==
    IF i.pos = Null
    THEN [i |-> i, some |-> FALSE, c |-> Null]
    ELSE [i |-> [i EXCEPT !.pos = h[i.pos].next], some |-> TRUE, c |-> i.pos]

UIterMut_next(i, h) ==
    IF i.pos = Null
    THEN [i |-> i, some |-> FALSE, c |-> Null]
    ELSE [i |-> [i EXCEPT !.pos = h[i.pos].next], some |-> TRUE, c |-> i.pos]

\* the node addresses a loop over iter() visits
RECURSIVE UIter_all(_, _)
UIter_all(i, h) ==
    LET n == UIter_next(i, h) IN
    IF n.some THEN <<n.c>> \o UIter_all(n.i, h) ELSE <<>>

\* Drop for UnboundQueue: while let Some(_) = self.pop_node() {}
RECURSIVE UnboundQueue_drop(_, _, _)
UnboundQueue_drop(q, h, acc) ==
    LET p == UnboundQueue_pop(q, h) IN
    IF p.r.ok
    THEN UnboundQueue_drop(p.q, p.heap, Append(acc, p.node))
    ELSE [q |-> q, heap |-> h, released |-> acc]

\* ================================================================== runs
\* number of elements a queue holds: initialized slots, live nodes
Held(q) == {k \in DOMAIN q.data : q.data[k].init}
Live(h) == {a \in Addrs : h[a].live}
Resident == IF engine = "bound" THEN Cardinality(Held(bq))
            ELSE Cardinality(Live(heap))

Call(op, ok, v) == [op |-> op, ok |-> ok, v |-> v, pre |-> Resident]

NoIter == [pos |-> 0, tail |-> 0]

Init ==
    /\ engine \in {"bound", "unbound"}
    /\ size \in Sizes
    /\ engine = "unbound" => size = 0
    /\ bq = BoundQueue_new(size)
    /\ uq = UnboundQueue_new
    /\ heap = [a \in Addrs |-> FreeNode]
    /\ mode = "live"
    /\ it = NoIter
    /\ yielded = <<>>
    /\ itDone = FALSE
    /\ snapshot = <<>>
    /\ ret = [op |-> "new", ok |-> TRUE, v |-> 0, pre |-> 0]
    /\ hist = <<>>
    /\ dropped = <<>>
    /\ uret = ret

Bound == engine = "bound"
Unbound == engine = "unbound"

\* ---------------------------------------------------- BoundQueue actions
\* push and pop, in a run of at most `limit` recorded calls
BPushOp(v, limit) ==
    /\ Bound /\ mode = "live" /\ Len(hist) < limit
    /\ bq' = BoundQueue_push(bq, v)
    /\ ret' = Call("push", ~push_full(bq, push_next(bq)), v)
    /\ hist' = Append(hist, ret')
    /\ UNCHANGED <<uret, engine, size, uq, heap, mode, it, yielded, itDone,
                   snapshot, dropped>>

BPopOp(limit) ==
    /\ Bound /\ mode = "live" /\ Len(hist) < limit
    /\ LET p == BoundQueue_pop(bq) IN
        /\ bq' = p.q
        /\ ret' = Call("pop", p.r.ok, p.r.v)
    /\ hist' = Append(hist, ret')
    /\ UNCHANGED <<uret, engine, size, uq, heap, mode, it, yielded, itDone,
                   snapshot, dropped>>

BPush(v) == BPushOp(v, MaxOps)

BPop == BPopOp(MaxOps)

BIsEmpty ==
    /\ Bound /\ mode = "live"
    /\ ret' = Call("is_empty", BoundQueue_is_empty(bq), 0)
    /\ UNCHANGED <<uret, engine, size, bq, uq, heap, mode, it, yielded, itDone,
                   snapshot, hist, dropped>>

BIsFull ==
    /\ Bound /\ mode = "live"
    /\ ret' = Call("is_full", BoundQueue_is_full(bq), 0)
    /\ UNCHANGED <<uret, engine, size, bq, uq, heap, mode, it, yielded, itDone,
                   snapshot, hist, dropped>>

BCap ==
    /\ Bound /\ mode = "live"
    /\ ret' = Call("cap", TRUE, BoundQueue_cap(bq))
    /\ UNCHANGED <<uret, engine, size, bq, uq, heap, mode, it, yielded, itDone,
                   snapshot, hist, dropped>>

BIter ==
    /\ Bound /\ mode = "live"
    /\ mode' = "iter"
    /\ it' = BoundQueue_iter(bq)
    /\ yielded' = <<>>
    /\ itDone' = FALSE
    /\ ret' = Call("iter", TRUE, 0)
    /\ UNCHANGED <<uret, engine, size, bq, uq, heap, snapshot, hist, dropped>>

BIterMut ==
    /\ Bound /\ mode = "live"
    /\ mode' = "iter_mut"
    /\ it' = BoundQueue_iter_mut(bq)
    /\ yielded' = <<>>
    /\ itDone' = FALSE
    /\ ret' = Call("iter_mut", TRUE, 0)
    /\ UNCHANGED <<uret, engine, size, bq, uq, heap, snapshot, hist, dropped>>

\* what the caller sees of one next(): the slot (or node) and its value
Item(c, v) == [c |-> c, v |-> v]

BIterNext ==
    /\ Bound /\ mode = "iter"
    /\ LET n == Iter_next(it, BoundQueue_cap(bq)) IN
        /\ it' = n.i
        /\ itDone' = (itDone \/ ~n.some)
        /\ yielded' = IF n.some
                      THEN Append(yielded, Item(n.c, bq.data[n.c].v))
                      ELSE yielded
        /\ ret' = Call("next", n.some, IF n.some THEN bq.data[n.c].v ELSE 0)
    /\ UNCHANGED <<uret, engine, size, bq, uq, heap, mode, snapshot, hist, dropped>>

BIterMutNext ==
    /\ Bound /\ mode = "iter_mut"
    /\ LET n == IterMut_next(it, BoundQueue_cap(bq)) IN
        /\ it' = n.i
        /\ itDone' = (itDone \/ ~n.some)
        /\ yielded' = IF n.some
                      THEN Append(yielded, Item(n.c, bq.data[n.c].v))
                      ELSE yielded
        /\ ret' = Call("next", n.some, IF n.some THEN bq.data[n.c].v ELSE 0)
    /\ UNCHANGED <<uret, engine, size, bq, uq, heap, mode, snapshot, hist, dropped>>

\* the borrow of iter() / iter_mut() ends
IterEnd ==
    /\ mode \in {"iter", "iter_mut"}
    /\ mode' = "live"
    /\ it' = NoIter
    /\ yielded' = <<>>
    /\ itDone' = FALSE
    /\ ret' = Call("end", TRUE, 0)
    /\ UNCHANGED <<uret, engine, size, bq, uq, heap, snapshot, hist, dropped>>

BIntoIter ==
    /\ Bound /\ mode = "live"
    /\ mode' = "into"
    /\ snapshot' = LET s == Iter_all(BoundQueue_iter(bq), BoundQueue_cap(bq)) IN
                   [k \in 1..Len(s) |-> Item(s[k], bq.data[s[k]].v)]
    /\ yielded' = <<>>
    /\ itDone' = FALSE
    /\ ret' = Call("into_iter", TRUE, 0)
    /\ UNCHANGED <<uret, engine, size, bq, uq, heap, it, hist, dropped>>

\* IntoIter::next is self.0.pop()
BIntoNext ==
    /\ Bound /\ mode = "into"
    /\ LET p == BoundQueue_pop(bq) IN
        /\ bq' = p.q
        /\ itDone' = (itDone \/ ~p.r.ok)
        /\ yielded' = IF p.r.ok THEN Append(yielded, Item(bq.head, p.r.v))
                      ELSE yielded
        /\ ret' = Call("next", p.r.ok, p.r.v)
    /\ UNCHANGED <<uret, engine, size, uq, heap, mode, it, snapshot, hist, dropped>>

\* the queue (or the IntoIter wrapping it) goes out of scope
BDrop ==
    /\ Bound /\ mode \in {"live", "into"}
    /\ mode' = "dropped"
    /\ dropped' = BoundQueue_drop_slots(bq)
    /\ bq' = BoundQueue_drop(bq)
    /\ ret' = Call("drop", TRUE, 0)
    /\ UNCHANGED <<uret, engine, size, uq, heap, it, yielded, itDone, snapshot, hist>>

\* -------------------------------------------------- UnboundQueue actions
UPush(v) ==
    /\ Unbound /\ mode = "live" /\ Len(hist) < MaxOps
    /\ \E a \in Addrs :
        /\ ~heap[a].live
        /\ LET p == UnboundQueue_push(uq, heap, a, v) IN
            /\ uq' = p.q
            /\ heap' = p.heap
    /\ ret' = Call("push", TRUE, v)
    /\ hist' = Append(hist, ret')
    /\ UNCHANGED <<uret, engine, size, bq, mode, it, yielded, itDone, snapshot,
                   dropped>>

UPop ==
    /\ Unbound /\ mode = "live" /\ Len(hist) < MaxOps
    /\ LET p == UnboundQueue_pop(uq, heap) IN
        /\ uq' = p.q
        /\ heap' = p.heap
        /\ ret' = Call("pop", p.r.ok, p.r.v)
    /\ hist' = Append(hist, ret')
    /\ UNCHANGED <<uret, engine, size, bq, mode, it, yielded, itDone, snapshot,
                   dropped>>

UIsEmpty ==
    /\ Unbound /\ mode = "live"
    /\ ret' = Call("is_empty", UnboundQueue_is_empty(uq), 0)
    /\ UNCHANGED <<uret, engine, size, bq, uq, heap, mode, it, yielded, itDone,
                   snapshot, hist, dropped>>

UIter ==
    /\ Unbound /\ mode = "live"
    /\ mode' = "iter"
    /\ it' = UnboundQueue_iter(uq)
    /\ yielded' = <<>>
    /\ itDone' = FALSE
    /\ ret' = Call("iter", TRUE, 0)
    /\ UNCHANGED <<uret, engine, size, bq, uq, heap, snapshot, hist, dropped>>

UIterMut ==
    /\ Unbound /\ mode = "live"
    /\ mode' = "iter_mut"
    /\ it' = UnboundQueue_iter_mut(uq)
    /\ yielded' = <<>>
    /\ itDone' = FALSE
    /\ ret' = Call("iter_mut", TRUE, 0)
    /\ UNCHANGED <<uret, engine, size, bq, uq, heap, snapshot, hist, dropped>>

UIterNext ==
    /\ Unbound /\ mode = "iter"
    /\ LET n == UIter_next(it, heap) IN
        /\ it' = n.i
        /\ itDone' = (itDone \/ ~n.some)
        /\ yielded' = IF n.some
                      THEN Append(yielded, Item(n.c, heap[n.c].data))
                      ELSE yielded
        /\ ret' = Call("next", n.some, IF n.some THEN heap[n.c].data ELSE 0)
    /\ UNCHANGED <<uret, engine, size, bq, uq, heap, mode, snapshot, hist, dropped>>

UIterMutNext ==
    /\ Unbound /\ mode = "iter_mut"
    /\ LET n == UIterMut_next(it, heap) IN
        /\ it' = n.i
        /\ itDone' = (itDone \/ ~n.some)
        /\ yielded' = IF n.some
                      THEN Append(yielded, Item(n.c, heap[n.c].data))
                      ELSE yielded
        /\ ret' = Call("next", n.some, IF n.some THEN heap[n.c].data ELSE 0)
    /\ UNCHANGED <<uret, engine, size, bq, uq, heap, mode, snapshot, hist, dropped>>

UIntoIter ==
    /\ Unbound /\ mode = "live"
    /\ mode' = "into"
    /\ snapshot' = LET s == UIter_all(UnboundQueue_iter(uq), heap) IN
                   [k \in 1..Len(s) |-> Item(s[k], heap[s[k]].data)]
    /\ yielded' = <<>>
    /\ itDone' = FALSE
    /\ ret' = Call("into_iter", TRUE, 0)
    /\ UNCHANGED <<uret, engine, size, bq, uq, heap, it, hist, dropped>>

UIntoNext ==
    /\ Unbound /\ mode = "into"
    /\ LET p == UnboundQueue_pop(uq, heap) IN
        /\ uq' = p.q
        /\ heap' = p.heap
        /\ itDone' = (itDone \/ ~p.r.ok)
        /\ yielded' = IF p.r.ok THEN Append(yielded, Item(uq.head, p.r.v))
                      ELSE yielded
        /\ ret' = Call("next", p.r.ok, p.r.v)
    /\ UNCHANGED <<uret, engine, size, bq, mode, it, snapshot, hist, dropped>>

UDrop ==
    /\ Unbound /\ mode \in {"live", "into"}
    /\ mode' = "dropped"
    /\ LET d == UnboundQueue_drop(uq, heap, <<>>) IN
        /\ uq' = d.q
        /\ heap' = d.heap
        /\ dropped' = d.released
    /\ ret' = Call("drop", TRUE, 0)
    /\ UNCHANGED <<uret, engine, size, bq, it, yielded, itDone, snapshot, hist>>

Next ==
    \/ \E v \in Vals : BPush(v)
    \/ BPop
    \/ BIsEmpty
    \/ BIsFull
    \/ BCap
    \/ BIter
    \/ BIterMut
    \/ BIterNext
    \/ BIterMutNext
    \/ IterEnd
    \/ BIntoIter
    \/ BIntoNext
    \/ BDrop
    \/ \E v \in Vals : UPush(v)
    \/ UPop
    \/ UIsEmpty
    \/ UIter
    \/ UIterMut
    \/ UIterNext
    \/ UIterMutNext
    \/ UIntoIter
    \/ UIntoNext
    \/ UDrop

Spec == Init /\ [][Next]_vars

\* ------------------------------------------- both engines, side by side
\* the driver of main.rs, generic over Q: Queue<T>, applied to a
\* BoundQueue::new(size) and an UnboundQueue with the same calls
Both == engine = "both"

InitPair ==
    /\ engine = "both"
    /\ size \in Sizes
    /\ bq = BoundQueue_new(size)
    /\ uq = UnboundQueue_new
    /\ heap = [a \in Addrs |-> FreeNode]
    /\ mode = "live"
    /\ it = NoIter
    /\ yielded = <<>>
    /\ itDone = FALSE
    /\ snapshot = <<>>
    /\ ret = [op |-> "new", ok |-> TRUE, v |-> 0, pre |-> 0]
    /\ hist = <<>>
    /\ dropped = <<>>
    /\ uret = ret

BCall(op, ok, v) == [op |-> op, ok |-> ok, v |-> v, pre |-> Cardinality(Held(bq))]
UCall(op, ok, v) == [op |-> op, ok |-> ok, v |-> v, pre |-> Cardinality(Live(heap))]

PairPush(v) ==
    /\ Both /\ Len(hist) < MaxOps
    /\ bq' = BoundQueue_push(bq, v)
    /\ \E a \in Addrs :
        /\ ~heap[a].live
        /\ LET p == UnboundQueue_push(uq, heap, a, v) IN
            /\ uq' = p.q
            /\ heap' = p.heap
    /\ ret' = BCall("push", ~push_full(bq, push_next(bq)), v)
    /\ uret' = UCall("push", TRUE, v)
    /\ hist' = Append(hist, ret')
    /\ UNCHANGED <<engine, size, mode, it, yielded, itDone, snapshot, dropped>>

PairPop ==
    /\ Both /\ Len(hist) < MaxOps
    /\ LET p == BoundQueue_pop(bq) IN
        /\ bq' = p.q
        /\ ret' = BCall("pop", p.r.ok, p.r.v)
    /\ LET p == UnboundQueue_pop(uq, heap) IN
        /\ uq' = p.q
        /\ heap' = p.heap
        /\ uret' = UCall("pop", p.r.ok, p.r.v)
    /\ hist' = Append(hist, ret')
    /\ UNCHANGED <<engine, size, mode, it, yielded, itDone, snapshot, dropped>>

PairIsEmpty ==
    /\ Both
    /\ ret' = BCall("is_empty", BoundQueue_is_empty(bq), 0)
    /\ uret' = UCall("is_empty", UnboundQueue_is_empty(uq), 0)
    /\ UNCHANGED <<engine, size, bq, uq, heap, mode, it, yielded, itDone,
                   snapshot, hist, dropped>>

NextPair ==
    \/ \E v \in Vals : PairPush(v)
    \/ PairPop
    \/ PairIsEmpty

SpecPair == InitPair /\ [][NextPair]_vars

\* ------------------------------------- long runs on a small BoundQueue
InitWrap == Init /\ Bound /\ size <= MaxWrapSize

WrapPush(v) == BPushOp(v, MaxWrapOps)

WrapPop == BPopOp(MaxWrapOps)

NextWrap ==
    \/ \E v \in Vals : WrapPush(v)
    \/ WrapPop

SpecWrap == InitWrap /\ [][NextWrap]_vars

\* ============================================================ properties
IsPrefix(s, t) ==
    /\ Len(s) <= Len(t)
    /\ \A k \in 1..Len(s) : s[k] = t[k]

NoDup(s) == \A j, k \in DOMAIN s : j # k => s[j] # s[k]

\* occupancy by index arithmetic, and the circular range [head, tail)
Occupancy(q) == (q.tail - q.head) % q.cap
CircRange(q) == {(q.head + k) % q.cap : k \in 0..(Occupancy(q) - 1)}
ResidentSeq(q) ==
    [k \in 1..Occupancy(q) |->
        Item((q.head + k - 1) % q.cap, q.data[(q.head + k - 1) % q.cap].v)]
Full(q) == (q.tail + 1) % q.cap = q.head

\* the values repeated pop returns until it returns None
RECURSIVE Drain(_)
Drain(q) ==
    LET p == BoundQueue_pop(q) IN
    IF p.r.ok THEN <<p.r.v>> \o Drain(p.q) ELSE <<>>

IsEmptyNow == IF Bound THEN BoundQueue_is_empty(bq)
              ELSE UnboundQueue_is_empty(uq)

\* the step is a call of push / pop / IntoIter::next
PushStep == hist' # hist /\ ret'.op = "push"
PopStep == hist' # hist /\ ret'.op = "pop"

\* hist is n pushes followed only by pops, at most n of them
PushesThenPops(n) ==
    /\ n \in 0..Len(hist)
    /\ Len(hist) - n <= n
    /\ \A k \in 1..Len(hist) : hist[k].op = IF k <= n THEN "push" ELSE "pop"

\* ------------------------------------------------------------------- C1
\* C1 as stated: on either engine, for any N, the pops that follow N pushes
\* onto a new queue return Some(x1), Some(x2), ... in push order.
C1_FifoAnyN ==
    \A n \in 0..Len(hist) :
        PushesThenPops(n) =>
            \A k \in 1..(Len(hist) - n) :
                hist[n + k].ok /\ hist[n + k].v = hist[k].v

\* C1 amended: the same for UnboundQueue with any N and for
\* BoundQueue::new(size) with N <= size.
C1_FifoWithinSize ==
    \A n \in 0..Len(hist) :
        (PushesThenPops(n) /\ (Unbound \/ n <= size)) =>
            \A k \in 1..(Len(hist) - n) :
                hist[n + k].ok /\ hist[n + k].v = hist[k].v

C1_Witness ==
    /\ Bound /\ size = 2 /\ Len(hist) = 4 /\ PushesThenPops(2)
    /\ hist[1].v # hist[2].v
    /\ hist[3].ok /\ hist[4].ok

\* ------------------------------------------------------------------- C2
\* pushes only, at most `size` of them, onto a new BoundQueue: all stored
C2_FirstPushesStored ==
    (/\ Bound /\ mode = "live"
     /\ Len(hist) <= size
     /\ \A k \in DOMAIN hist : hist[k].op = "push")
    => /\ \A k \in DOMAIN hist : hist[k].ok
       /\ Cardinality(Held(bq)) = Len(hist)
       /\ Occupancy(bq) = Len(hist)
       /\ Drain(bq) = [k \in 1..Len(hist) |-> hist[k].v]

C2_PushOnFullStep ==
    (Bound /\ PushStep /\ Cardinality(Held(bq)) = size)
    => /\ ~ret'.ok
       /\ bq' = bq
       /\ ResidentSeq(bq') = ResidentSeq(bq)
       /\ Drain(bq') = Drain(bq)

\* C2: the first `size` pushes onto a new BoundQueue are all stored, and a
\* push onto a queue holding `size` elements changes neither head, tail nor
\* the stored elements, nor what later pops return.
C2_FullPushIsNoOp == []C2_FirstPushesStored /\ [][C2_PushOnFullStep]_vars

C2_Witness ==
    /\ Bound /\ size >= 1
    /\ ret.op = "push" /\ ~ret.ok /\ ret.pre = size
    /\ bq.head # 0

\* ------------------------------------------------------------------- C3
\* C3 as stated: is_full() returns true exactly when advancing tail by one
\* with wraparound would equal head (the next push would be discarded).
C3_IsFullIffFull ==
    (Bound /\ ret.op = "is_full") => (ret.ok <=> Full(bq))

\* ------------------------------------------------------------------- C4
\* is_empty() against the elements held, also after a pop returned None
C4_EmptyState ==
    /\ mode = "live" => (IsEmptyNow <=> Resident = 0)
    /\ ret.op = "is_empty" => (ret.ok <=> Resident = 0)
    /\ (ret.op = "pop" /\ ~ret.ok) => (IsEmptyNow /\ Resident = 0)

C4_PopOnEmptyStep ==
    /\ (PopStep /\ Resident = 0)
       => (~ret'.ok /\ bq' = bq /\ uq' = uq /\ heap' = heap)
    /\ (ret'.op = "is_empty") => (bq' = bq /\ uq' = uq /\ heap' = heap)

\* C4: a pop on a queue holding no element returns None and changes
\* nothing; after a pop returned None is_empty() is true; is_empty() is
\* true exactly when no element is held and changes nothing.
C4_EmptyPop == []C4_EmptyState /\ [][C4_PopOnEmptyStep]_vars

C4_Witness ==
    /\ Bound /\ bq.head # 0
    /\ ret.op = "pop" /\ ~ret.ok
    /\ \E k \in DOMAIN hist : hist[k].op = "push" /\ hist[k].ok

\* ------------------------------------------------------------------- C5
\* C5: push(v) onto an empty queue followed at once by pop() returns
\* Some(v) and leaves the queue empty, whatever came before
\* (BoundQueue with size >= 1).
C5_RoundTrip ==
    LET n == Len(hist) IN
    (/\ n >= 2 /\ ret.op = "pop"
     /\ hist[n - 1].op = "push" /\ hist[n - 1].pre = 0
     /\ (Unbound \/ size >= 1))
    => /\ hist[n] = ret
       /\ ret.ok /\ ret.v = hist[n - 1].v
       /\ Resident = 0
       /\ IsEmptyNow

C5_Witness ==
    /\ Bound /\ size = 1 /\ Len(hist) = 4 /\ ret.op = "pop" /\ ret.ok
    /\ hist[1].op = "push" /\ hist[2].op = "pop"
    /\ hist[3].op = "push" /\ hist[3].pre = 0
    /\ bq.head = 0 /\ bq.tail = 0

\* ------------------------------------------------------------------- C6
\* the indices and the initialized slots
C6_RingState ==
    Bound =>
        /\ bq.head \in 0..size /\ bq.tail \in 0..size
        /\ Occupancy(bq) <= size
        /\ mode # "dropped" => Held(bq) = CircRange(bq)

C6_SlotStep ==
    /\ (Bound /\ PushStep) =>
          \A k \in DOMAIN bq.data :
              bq'.data[k] # bq.data[k] =>
                  ~bq.data[k].init /\ bq'.data[k] = Slot(ret'.v)
    /\ (Bound /\ (PopStep \/ (mode = "into" /\ mode' = "into")) /\ ret'.ok) =>
          /\ bq.data[bq.head].init
          /\ ~bq'.data[bq.head].init
          /\ \A k \in DOMAIN bq.data : k # bq.head => bq'.data[k] = bq.data[k]

\* C6: in a BoundQueue::new(size), head and tail stay below size + 1, the
\* initialized slots are exactly the circular range [head, tail), the
\* occupancy is at most size, push writes only an uninitialized slot and
\* pop reads only an initialized slot, which is uninitialized afterwards.
C6_RingInvariant == []C6_RingState /\ [][C6_SlotStep]_vars

C6_Witness ==
    /\ Bound /\ mode = "live" /\ bq.tail < bq.head /\ Occupancy(bq) = 2
    /\ ret.op = "push" /\ ret.ok

\* ------------------------------------------------------------------- C7
\* the node reached from a after k next links
RECURSIVE Walk(_, _)
Walk(a, k) ==
    IF k = 0 \/ a = Null THEN a ELSE Walk(heap[a].next, k - 1)

\* C7: in an UnboundQueue head is None iff tail is None iff len = 0, and
\* when non-empty the node tail refers to is reached from head after
\* exactly len - 1 next links and its own next link is None.
C7_ChainInvariant ==
    Unbound =>
        /\ (uq.head = Null) <=> (uq.tail = Null)
        /\ (uq.head = Null) <=> (uq.len = 0)
        /\ uq.len > 0 =>
              /\ Walk(uq.head, uq.len - 1) = uq.tail
              /\ \A j \in 0..(uq.len - 2) : Walk(uq.head, j) # uq.tail
              /\ heap[uq.tail].next = Null
              /\ \A j \in 0..(uq.len - 1) : heap[Walk(uq.head, j)].live

C7_Witness ==
    /\ Unbound /\ uq.len = 2 /\ mode = "live"
    /\ \E k \in DOMAIN hist : hist[k].op = "pop" /\ hist[k].ok

\* ------------------------------------------------------------------- C8
\* the step that drops the queue, against the state it is dropped in
C8_DropStep ==
    (Bound /\ mode # "dropped" /\ mode' = "dropped")
    => /\ NoDup(dropped')
       /\ Range(dropped') = CircRange(bq)
       /\ Range(dropped') = Held(bq)
       /\ Len(dropped') = Resident
       /\ Held(bq') = {}

\* C8: dropping a BoundQueue destructs each slot of the circular range
\* [head, tail) exactly once and no other slot, as many as are resident.
C8_DropExactlyResident == [][C8_DropStep]_vars

C8_Witness ==
    /\ Bound /\ mode = "dropped" /\ bq.tail < bq.head /\ Len(dropped) = 2

\* ------------------------------------------------------------------- C9
\* what the iterator in use has yielded so far
C9_IterState ==
    (Bound /\ mode \in {"iter", "iter_mut"})
    => /\ IsPrefix(yielded, ResidentSeq(bq))
       /\ \A k \in DOMAIN yielded :
              yielded[k].c # bq.tail /\ bq.data[yielded[k].c].init
       /\ itDone =>
              /\ yielded = ResidentSeq(bq)
              /\ Len(yielded) = Cardinality(Held(bq))
              /\ [k \in DOMAIN yielded |-> yielded[k].v] = Drain(bq)
              /\ ~ret.ok

C9_IterStep == (Bound /\ mode \in {"iter", "iter_mut"}) => bq' = bq

\* C9: iter() and iter_mut() of a BoundQueue yield the resident elements
\* from head to tail in FIFO order, wrapping like pop, then None; they
\* never visit the slot at tail nor an uninitialized slot, and leave the
\* queue unchanged, so they yield what repeated pop would return.
C9_IterYieldsResident == []C9_IterState /\ [][C9_IterStep]_vars

C9_Witness ==
    /\ Bound /\ mode = "iter" /\ itDone /\ Len(yielded) = 2
    /\ bq.tail < bq.head

\* ------------------------------------------------------------------ C10
\* C10: on either engine into_iter() yields what iter() would yield on
\* that queue, then None on every further call, and the wrapped queue is
\* empty once it has returned None.
C10_IntoIterSameAsIter ==
    mode = "into"
    => /\ IsPrefix(yielded, snapshot)
       /\ itDone =>
              /\ yielded = snapshot
              /\ ret.op = "next" /\ ~ret.ok
              /\ Resident = 0
              /\ IsEmptyNow

C10_Witness ==
    /\ Unbound /\ mode = "into" /\ itDone /\ Len(yielded) = 2
    /\ yielded[1].v # yielded[2].v

\* ------------------------------------------------------------------ C11
\* the number of elements a queue without a capacity holds after the first
\* k calls of hist
RECURSIVE IdealCount(_)
IdealCount(k) ==
    IF k = 0 THEN 0
    ELSE LET c == IdealCount(k - 1) IN
         IF hist[k].op = "push" THEN c + 1
         ELSE IF c > 0 THEN c - 1 ELSE 0

Exceeded == \E k \in 1..Len(hist) : IdealCount(k) > size

\* C11: applied side by side to a BoundQueue::new(size) and an UnboundQueue,
\* a sequence of push, pop and is_empty calls in which no more than size
\* elements are ever resident gets the same result from both on every pop
\* and every is_empty.
C11_Interchangeable ==
    (Both /\ ~Exceeded) =>
        /\ ret.op = uret.op
        /\ ret.op \in {"pop", "is_empty"} => (ret.ok = uret.ok /\ ret.v = uret.v)
        /\ BoundQueue_is_empty(bq) <=> UnboundQueue_is_empty(uq)

C11_Witness ==
    /\ Both /\ ~Exceeded /\ size = 2 /\ Len(hist) = 5
    /\ ret.op = "pop" /\ ret.ok /\ uret.ok
    /\ bq.tail < bq.head

\* ------------------------------------------------------------------ C12
\* the values pushed, and the values the pops returned, in call order
Vs(h) == [k \in DOMAIN h |-> h[k].v]
IsPush(e) == e.op = "push"
IsSomePop(e) == e.op = "pop" /\ e.ok
IsStoredPush(e) == e.op = "push" /\ e.ok
PushVals == Vs(SelectSeq(hist, IsPush))
SomeVals == Vs(SelectSeq(hist, IsSomePop))
NPush(i) == Cardinality({k \in 1..i : IsPush(hist[k])})
NSome(i) == Cardinality({k \in 1..i : IsSomePop(hist[k])})

\* C12: on an UnboundQueue, under any interleaving of pushes and pops, the
\* k-th pop that returns Some returns the k-th pushed value, and a pop
\* returns None exactly when every pushed value has already been popped.
C12_UnboundFifo ==
    Unbound =>
        /\ IsPrefix(SomeVals, PushVals)
        /\ \A i \in DOMAIN hist :
               hist[i].op = "pop" =>
                   (~hist[i].ok <=> NPush(i - 1) = NSome(i - 1))

C12_Witness ==
    /\ Unbound /\ Len(hist) = 5
    /\ hist[1].op = "push" /\ hist[2].op = "pop" /\ hist[2].ok
    /\ hist[3].op = "push" /\ hist[3].v # hist[1].v
    /\ hist[4].op = "pop" /\ hist[4].ok
    /\ hist[5].op = "pop" /\ ~hist[5].ok

\* ------------------------------------------------------------------ C13
StoredVals == Vs(SelectSeq(hist, IsStoredPush))

C14_State ==
    (Bound /\ mode = "live") =>
        /\ BoundQueue_is_full(bq) => Full(bq)
        /\ (Full(bq) /\ ~BoundQueue_is_full(bq))
               <=> (bq.head = 0 /\ bq.tail = BoundQueue_cap(bq) - 1)
        /\ ret.op = "is_full" =>
               /\ ret.ok => Full(bq)
               /\ (Full(bq) /\ ~ret.ok)
                      <=> (bq.head = 0 /\ bq.tail = BoundQueue_cap(bq) - 1)

\* the push that follows: discarded exactly in the full states
C14_PushStep ==
    (Bound /\ PushStep) =>
        /\ Full(bq) <=> ~ret'.ok
        /\ BoundQueue_is_full(bq) => (~ret'.ok /\ bq' = bq)

\* C14: is_full() only under-reports: where it returns true the next push
\* is discarded, and the full states in which it returns false are exactly
\* those with head == 0 and tail == cap() - 1.
C14_IsFullUnderReports == []C14_State /\ [][C14_PushStep]_vars

C14_Witness ==
    /\ Bound /\ ret.op = "is_full" /\ ret.ok
    /\ bq.head = bq.tail + 1 /\ Cardinality(Held(bq)) = size

\* ------------------------------------------------------------------ C15
\* the nodes of the chain, from head, and their elements
Chain == [k \in 1..uq.len |-> Walk(uq.head, k - 1)]

\* the step that drops the UnboundQueue, against the state it is dropped in
C15_DropStep ==
    (Unbound /\ mode # "dropped" /\ mode' = "dropped") =>
        /\ Len(dropped') = uq.len
        /\ dropped' = Chain
        /\ NoDup(dropped')
        /\ Range(dropped') = Live(heap)
        /\ [k \in DOMAIN dropped' |-> heap[dropped'[k]].data]
               = SubSeq(PushVals, NSome(Len(hist)) + Len(yielded) + 1,
                        Len(PushVals))
        /\ Live(heap') = {}
        /\ uq' = [head |-> Null, tail |-> Null, len |-> 0]

\* one pop_node releases the head node and no other
C15_PopStep ==
    (Unbound /\ ret'.ok /\ (PopStep \/ (mode = "into" /\ mode' = "into"))) =>
        /\ Live(heap) \ Live(heap') = {uq.head}
        /\ Live(heap') \subseteq Live(heap)

\* C15: dropping an UnboundQueue pops node after node, len times, releasing
\* each node once in FIFO order and ending with head == None, tail == None
\* and len == 0; releasing a node does not release its successor.
C15_DropIterative == [][C15_DropStep]_vars /\ [][C15_PopStep]_vars

C15_Witness ==
    /\ Unbound /\ mode = "dropped" /\ Len(dropped) = 2
    /\ \E k \in DOMAIN hist : IsSomePop(hist[k])

\* ------------------------------------------------------------------ C16
ChainItems == [k \in 1..uq.len |-> Item(Chain[k], heap[Chain[k]].data)]

\* what the iterator in use over the UnboundQueue has yielded so far
C16_State ==
    (Unbound /\ mode \in {"iter", "iter_mut"}) =>
        /\ IsPrefix(yielded, ChainItems)
        /\ Vs(ChainItems) =
               SubSeq(PushVals, NSome(Len(hist)) + 1, Len(PushVals))
        /\ itDone =>
               /\ yielded = ChainItems
               /\ Len(yielded) = uq.len
               /\ ret.op = "next" /\ ~ret.ok

\* iterating changes neither the queue nor any node
C16_Step ==
    (Unbound /\ mode \in {"iter", "iter_mut"}) => (uq' = uq /\ heap' = heap)

\* C16: iter() and iter_mut() of an UnboundQueue yield exactly len elements
\* in push order from head, then None, and leave head, tail, len and every
\* next link unchanged, so that another iter() yields the same again.
C16_UnboundIter == []C16_State /\ [][C16_Step]_vars

C16_Witness ==
    /\ Unbound /\ mode = "iter" /\ itDone /\ Len(yielded) = 2
    /\ yielded[1].v # yielded[2].v
    /\ \E k \in DOMAIN hist : IsSomePop(hist[k])

\* ------------------------------------------------------------------ C17
\* tail, when present, refers to a node that has not been released, and a
\* released node has never been written since its release
C17_State ==
    Unbound =>
        /\ uq.tail # Null => heap[uq.tail].live
        /\ \A a \in Addrs : ~heap[a].live => heap[a] = FreeNode

\* a node is released only as the head node: by one pop_node, or in chain
\* order by the pop_node calls of Drop
C17_ReleaseStep ==
    Unbound =>
        \A a \in Live(heap) \ Live(heap') :
            \/ a = uq.head
            \/ /\ mode' = "dropped"
               /\ \E k \in DOMAIN dropped' : dropped'[k] = a /\ Chain[k] = a

\* push_node writes the freshly boxed node and the next link of the
\* unreleased tail, nothing else
C17_PushStep ==
    (Unbound /\ PushStep) =>
        /\ \A b \in Addrs :
               heap'[b] # heap[b] =>
                   \/ ~heap[b].live /\ b = uq'.tail
                   \/ b = uq.tail /\ heap[b].live /\ heap'[b].live
        /\ heap'[uq'.tail] = Node_new(ret'.v)

\* C17: a node is released only by pop_node detaching it from head, never
\* through tail; tail (when present) refers to an unreleased node, so
\* push_node never writes the next link of a released node, also on a push
\* that follows a pop which emptied the queue.
C17_TailNeverDangling ==
    []C17_State /\ [][C17_ReleaseStep]_vars /\ [][C17_PushStep]_vars

\* a push directly after a pop that emptied the queue, followed by another
C17_Witness ==
    /\ Unbound /\ mode = "live" /\ Len(hist) >= 4
    /\ LET n == Len(hist) IN
        /\ IsSomePop(hist[n - 2]) /\ hist[n - 2].pre = 1
        /\ IsPush(hist[n - 1]) /\ hist[n - 1].pre = 0
        /\ IsPush(hist[n]) /\ hist[n].pre = 1

\* ------------------------------------------------------------------ C18
C18_State ==
    Bound =>
        /\ BoundQueue_cap(bq) = size + 1
        /\ ret.op = "new" => (bq.head = 0 /\ bq.tail = 0 /\ Held(bq) = {})
        /\ ret.op = "cap" => ret.v = size + 1
        /\ DOMAIN bq.data = 0..size
        /\ Cardinality(Held(bq)) <= BoundQueue_cap(bq) - 1

\* the allocation is never resized
C18_Step == Bound => (bq'.cap = bq.cap /\ DOMAIN bq'.data = DOMAIN bq.data)

\* C18: for BoundQueue::new(n), cap() returns n + 1 right after construction
\* (head = tail = 0) and after any sequence of pushes and pops; the queue
\* never holds more than cap() - 1 elements at once.
C18_CapIsAllocation == []C18_State /\ [][C18_Step]_vars

\* cap() called on a queue that holds cap() - 1 elements after a wraparound
C18_Witness ==
    /\ Bound /\ size >= 2 /\ ret.op = "cap"
    /\ Cardinality(Held(bq)) = ret.v - 1
    /\ bq.tail < bq.head
    /\ \E k \in DOMAIN hist : IsSomePop(hist[k])

\* ------------------------------------------------------------------ C19
\* the values handed back to the caller so far: by pop, then by the
\* IntoIter that consumed the queue
Returned ==
    SomeVals \o (IF mode \in {"into", "dropped"} THEN Vs(yielded) ELSE <<>>)

\* the stored values not handed back yet
Remaining == SubSeq(StoredVals, Len(Returned) + 1, Len(StoredVals))

\* every stored element is either handed back or still resident, in push
\* order; once the queue is dropped nothing is resident
C19_State ==
    Bound =>
        /\ IsPrefix(Returned, StoredVals)
        /\ mode # "dropped" =>
               /\ Vs(ResidentSeq(bq)) = Remaining
               /\ Cardinality(Held(bq)) = Len(Remaining)
        /\ mode = "dropped" =>
               /\ Held(bq) = {}
               /\ Len(dropped) = Len(Remaining)

\* the drop destructs exactly the elements not handed back, once each
C19_DropStep ==
    (Bound /\ mode # "dropped" /\ mode' = "dropped") =>
        /\ NoDup(dropped')
        /\ \A k \in DOMAIN dropped' : bq.data[dropped'[k]].init
        /\ [k \in DOMAIN dropped' |-> bq.data[dropped'[k]].v] = Remaining
        /\ hist' = hist /\ yielded' = yielded

\* a pop (or IntoIter::next) that returns Some gives up the head slot
C19_ReturnStep ==
    (Bound /\ ret'.ok /\ (PopStep \/ (mode = "into" /\ mode' = "into"))) =>
        /\ bq.data[bq.head].init
        /\ ret'.v = bq.data[bq.head].v
        /\ Held(bq') = Held(bq) \ {bq.head}
        /\ bq.head \notin Held(bq')

\* a push either stores the element in a slot that held none, or discards
\* it and leaves the queue as it was
C19_PushStep ==
    (Bound /\ PushStep) =>
        IF ret'.ok
        THEN /\ bq.tail \notin Held(bq)
             /\ Held(bq') = Held(bq) \cup {bq.tail}
             /\ bq'.data[bq.tail] = Slot(ret'.v)
        ELSE bq' = bq

\* C19: element conservation in BoundQueue: every pushed element is
\* returned by a pop, or destructed at the push that discarded it, or
\* destructed when the queue is dropped (directly or through a partially
\* consumed into_iter()), exactly one of the three and exactly once.
C19_Conservation ==
    /\ []C19_State
    /\ [][C19_DropStep]_vars
    /\ [][C19_ReturnStep]_vars
    /\ [][C19_PushStep]_vars

\* all three fates in one run, the drop through a partially consumed
\* into_iter()
C19_Witness ==
    /\ Bound /\ mode = "dropped"
    /\ \E k \in DOMAIN hist : hist[k].op = "push" /\ ~hist[k].ok
    /\ \E k \in DOMAIN hist : IsSomePop(hist[k])
    /\ Len(yielded) = 1
    /\ Len(dropped) = 1

\* ------------------------------------------------------------------ C20
\* C20: a BoundQueue created with new(0) never holds an element: every push
\* is discarded, head and tail stay 0, is_empty() is always true, pop()
\* always returns None, and iter() yields nothing.
C20_ZeroSizeHoldsNothing ==
    (Bound /\ size = 0) =>
        /\ bq = BoundQueue_new(0)
        /\ bq.head = 0 /\ bq.tail = 0 /\ Held(bq) = {}
        /\ BoundQueue_is_empty(bq)
        /\ \A k \in DOMAIN hist : ~hist[k].ok
        /\ ret.op = "is_empty" => ret.ok
        /\ ret.op = "next" => ~ret.ok
        /\ yielded = <<>>
        /\ dropped = <<>>

\* iter() has returned None at once, after pushes and a pop
C20_Witness ==
    /\ Bound /\ size = 0 /\ mode = "iter" /\ itDone
    /\ Len(hist) >= 3
    /\ \E k \in DOMAIN hist : hist[k].op = "pop"
    /\ Cardinality({k \in DOMAIN hist : hist[k].op = "push"}) >= 2

====
